---- MODULE Spec2Model ----
(***************************************************************************)
(* The message processors of czx-lab/leaf: the registry that binds 16-bit  *)
(* message IDs to protobuf message types, the codec that frames a message  *)
(* as | id | protobuf message |, and the dispatcher Route.                 *)
(*                                                                         *)
(* Two implementations are modelled, each translated from its own source:  *)
(*   ProcessorV1  src/network/protobuf/protobuf_v1.go                      *)
(*   Processor    src/unnamed/part_000                                     *)
(* A process constructs one of them (impl) and then calls its methods, one *)
(* call per step.  A call that reaches log.Fatal or a nil dereference ends *)
(* the process: no step follows.                                           *)
(***************************************************************************)
EXTENDS Integers, Sequences, FiniteSets, TLC

VARIABLES
    impl,     \* which processor the process constructed
    v1,       \* the ProcessorV1 struct: littleEndian, msgInfo, msgID, typeID
    pr,       \* the Processor struct: littleEndian, msgInfo, msgID
    exit,     \* "running", or how the process ended: "fatal" | "panic"
    last,     \* the last call: its name, its arguments and what it returned
    calls     \* the handler / router / visitor invocations the last call made

vars == <<impl, v1, pr, exit, last, calls>>

(***************************************************************************)
(* Bounds of the model.                                                    *)
(***************************************************************************)
\* message IDs used in calls and in frame headers are 0..MaxID
MaxID == 1
\* the one field of a message takes the values 0..MaxSeq
MaxSeq == 1

(***************************************************************************)
(* Values.                                                                 *)
(***************************************************************************)
Nil == "nil"
Running == "running"
Panic == "panic"

\* math.MaxUint16, the limit Register compares len(msgInfo) with
MaxUint16 == 65535

\* reflect.Type values of the registered messages: pointers to structs
PtrTypes == {"*A", "*B"}
\* what a caller may hand to Register: a pointer message, a nil interface,
\* or a message implemented on a non-pointer type
Prototypes == PtrTypes \cup {Nil, "V"}
IDs == 0..MaxID
Seqs == 0..MaxSeq
\* func([]any) values a caller attaches as handlers and as raw handlers
MsgHandlers == {"h1", "h2"}
RawHandlers == {"h3"}
Routers == {"r1"}
UserData == {"u1"}

\* reflect.TypeOf(msg).Kind()
Kind(t) == IF t \in PtrTypes THEN "Ptr" ELSE "Struct"

\* A decoded protobuf message: a pointer to a struct of type t with one field
Proto(t, s) == [kind |-> "proto", type |-> t, seq |-> s]
\* type MsgRaw struct { msgID uint16; msgRawData []byte }
MsgRaw(id, d) == [kind |-> "raw", type |-> "MsgRaw", msgID |-> id, msgRawData |-> d]

\* the nil interface value Unmarshal returns beside an error
NoMsg == [kind |-> "nil", type |-> Nil]

\* reflect.TypeOf(msg) of a message value
TypeOf(m) == m.type

\* &MsgInfo{msgType: msgType, msgID: msgID}: the attachments start nil
MsgInfo(msgType, msgID) ==
    [msgType |-> msgType, msgID |-> msgID, msgRouter |-> Nil,
     msgHandler |-> Nil, msgRawHandler |-> Nil]

\* m[k] = v on a Go map
Put(m, k, v) == (k :> v) @@ m

(***************************************************************************)
(* The collaborators.                                                      *)
(***************************************************************************)
\* github.com/czx-lab/leaf/log.Fatal as ProcessorV1 calls it: the process ends
LeafLogFatal == "fatal"
\* the standard library's log.Fatal as Processor calls it: os.Exit(1)
StdLogFatal == "fatal"

\* protobuf wire format: the key of field 1 with wire type 0 (varint)
FieldTag == 1 * 8 + 0

\* proto.Marshal: proto3 omits a zero field, else key and value
protoMarshal(m) == IF m.seq = 0 THEN <<>> ELSE <<FieldTag, m.seq>>

\* proto.Unmarshal(b, msg) into a fresh msg of type t: the message and the error
protoUnmarshal(b, t) ==
    IF b = <<>> THEN [msg |-> Proto(t, 0), err |-> Nil]
    ELSE IF Len(b) = 2 /\ b[1] = FieldTag THEN [msg |-> Proto(t, b[2]), err |-> Nil]
    ELSE [msg |-> Proto(t, 0), err |-> "ErrProto"]

\* binary.BigEndian.PutUint16 / binary.LittleEndian.PutUint16
\* PutUint16 that ignores the configured order and writes big-endian
PutUint16_BigOnly(littleEndian, id) == <<id \div 256, id % 256>>

PutUint16(littleEndian, id) ==
    IF littleEndian THEN <<id % 256, id \div 256>> ELSE <<id \div 256, id % 256>>

\* binary.BigEndian.Uint16 / binary.LittleEndian.Uint16
Uint16(littleEndian, b) ==
    IF littleEndian THEN b[2] * 256 + b[1] ELSE b[1] * 256 + b[2]

\* data[2:]
Tail2(data) == SubSeq(data, 3, Len(data))

(***************************************************************************)
(* Invocations a call makes, in the order it makes them.                   *)
(***************************************************************************)
\* i.msgHandler([]any{msg, userData})
CallHandler(h, msg, userData) ==
    [fn |-> "msgHandler", h |-> h, args |-> <<msg, userData>>]
\* i.msgRawHandler([]any{msgRaw.msgID, msgRaw.msgRawData, userData})
CallRawHandler(h, id, d, userData) ==
    [fn |-> "msgRawHandler", h |-> h, args |-> <<id, d, userData>>]
\* i.msgRouter.Go(msgType, msg, userData)
CallRouter(r, msgType, msg, userData) ==
    [fn |-> "msgRouter.Go", h |-> r, args |-> <<msgType, msg, userData>>]
\* proto.Marshal(msg.(proto.Message))
CallProtoMarshal(msg) == [fn |-> "proto.Marshal", h |-> "proto", args |-> <<msg>>]
\* proto.Unmarshal(data[2:], msg.(proto.Message)), msg a fresh value of type t
CallProtoUnmarshal(b, t) == [fn |-> "proto.Unmarshal", h |-> "proto", args |-> <<b, t>>]
\* f(uint16(i.msgID), i.msgType)
CallVisit(id, t) == [fn |-> "f", h |-> "f", args |-> <<id, t>>]

(***************************************************************************)
(* ProcessorV1 (src/network/protobuf/protobuf_v1.go).                      *)
(***************************************************************************)
\* others: the number of records of msgInfo (and entries of msgID) of schemas
\* outside PtrTypes, which the maps of the model do not hold
NewMsgIdProcessor ==
    [littleEndian |-> FALSE, msgInfo |-> <<>>, msgID |-> <<>>, typeID |-> <<>>,
     others |-> 0]

ProcessorV1_SetByteOrder(p, littleEndian) ==
    [p |-> [p EXCEPT !.littleEndian = littleEndian], exit |-> Running]

\* p.msgInfo[msgType].<field> = v: a nil dereference when the entry is missing
V1SetField(p, msgType, field, v) ==
    IF msgType \notin DOMAIN p.msgInfo THEN [p |-> p, exit |-> Panic]
    ELSE [p |-> [p EXCEPT !.msgInfo[msgType][field] = v], exit |-> Running]

ProcessorV1_SetRouter(p, msg, msgRouter) ==
    IF msg \notin DOMAIN p.msgID THEN [p |-> p, exit |-> LeafLogFatal]
    ELSE V1SetField(p, msg, "msgRouter", msgRouter)

ProcessorV1_SetHandler(p, msg, msgHandler) ==
    IF msg \notin DOMAIN p.msgID THEN [p |-> p, exit |-> LeafLogFatal]
    ELSE V1SetField(p, msg, "msgHandler", msgHandler)

ProcessorV1_SetRawHandler(p, id, msgRawHandler) ==
    IF id \notin DOMAIN p.typeID THEN [p |-> p, exit |-> LeafLogFatal]
    ELSE V1SetField(p, p.typeID[id], "msgRawHandler", msgRawHandler)

\* for _, i := range p.msgInfo { f(uint16(i.msgID), i.msgType) }: the visits
ProcessorV1_Range(p) ==
    {CallVisit(p.msgInfo[t].msgID, p.msgInfo[t].msgType) : t \in DOMAIN p.msgInfo}

\* Marshal without the early return: a header of the zero ID beside the error
ProcessorV1_Marshal_NoReturn(p, msg) ==
    LET msgType == TypeOf(msg) IN
    IF msgType \notin DOMAIN p.msgInfo
    THEN [segs |-> <<PutUint16(p.littleEndian, 0), <<>>>>,
          err |-> "ErrMsgNotRegistered", calls |-> <<>>, exit |-> Running]
    ELSE [segs |-> <<PutUint16(p.littleEndian, p.msgInfo[msgType].msgID),
                     protoMarshal(msg)>>,
          err |-> Nil, calls |-> <<CallProtoMarshal(msg)>>, exit |-> Running]

ProcessorV1_Marshal(p, msg) ==
    LET msgType == TypeOf(msg) IN
    IF msgType \notin DOMAIN p.msgInfo
    THEN [segs |-> <<>>, err |-> "ErrMsgNotRegistered", calls |-> <<>>, exit |-> Running]
    ELSE [segs |-> <<PutUint16(p.littleEndian, p.msgInfo[msgType].msgID),
                     protoMarshal(msg)>>,
          err |-> Nil, calls |-> <<CallProtoMarshal(msg)>>, exit |-> Running]

\* Route with the router submission made before the handler call
ProcessorV1_Route_RouterFirst(p, msg, userData) ==
    IF msg.kind = "raw"
    THEN IF msg.msgID \notin DOMAIN p.typeID
         THEN [calls |-> <<>>, err |-> "ErrIDNotRegistered", exit |-> Running]
         ELSE LET i == p.msgInfo[p.typeID[msg.msgID]] IN
              [calls |-> IF i.msgRawHandler # Nil
                         THEN <<CallRawHandler(i.msgRawHandler, msg.msgID,
                                               msg.msgRawData, userData)>>
                         ELSE <<>>,
               err |-> Nil, exit |-> Running]
    ELSE LET msgType == TypeOf(msg) IN
         IF msgType \notin DOMAIN p.msgID
         THEN [calls |-> <<>>, err |-> "ErrMsgNotRegistered", exit |-> Running]
         ELSE LET i == p.msgInfo[msgType] IN
              [calls |-> (IF i.msgRouter # Nil
                          THEN <<CallRouter(i.msgRouter, msgType, msg, userData)>>
                          ELSE <<>>)
                         \o
                         (IF i.msgHandler # Nil
                          THEN <<CallHandler(i.msgHandler, msg, userData)>>
                          ELSE <<>>),
               err |-> Nil, exit |-> Running]

ProcessorV1_Route(p, msg, userData) ==
    IF msg.kind = "raw"
    THEN IF msg.msgID \notin DOMAIN p.typeID
         THEN [calls |-> <<>>, err |-> "ErrIDNotRegistered", exit |-> Running]
         ELSE IF p.typeID[msg.msgID] \notin DOMAIN p.msgInfo
         THEN [calls |-> <<>>, err |-> Nil, exit |-> Panic]
         ELSE LET i == p.msgInfo[p.typeID[msg.msgID]] IN
              [calls |-> IF i.msgRawHandler # Nil
                         THEN <<CallRawHandler(i.msgRawHandler, msg.msgID,
                                               msg.msgRawData, userData)>>
                         ELSE <<>>,
               err |-> Nil, exit |-> Running]
    ELSE LET msgType == TypeOf(msg) IN
         IF msgType \notin DOMAIN p.msgID
         THEN [calls |-> <<>>, err |-> "ErrMsgNotRegistered", exit |-> Running]
         ELSE IF msgType \notin DOMAIN p.msgInfo
         THEN [calls |-> <<>>, err |-> Nil, exit |-> Panic]
         ELSE LET i == p.msgInfo[msgType] IN
              [calls |-> (IF i.msgHandler # Nil
                          THEN <<CallHandler(i.msgHandler, msg, userData)>>
                          ELSE <<>>)
                         \o
                         (IF i.msgRouter # Nil
                          THEN <<CallRouter(i.msgRouter, msgType, msg, userData)>>
                          ELSE <<>>),
               err |-> Nil, exit |-> Running]

\* Unmarshal taking the raw path on msgHandler instead of msgRawHandler
ProcessorV1_Unmarshal_OnHandler(p, data) ==
    IF Len(data) < 2
    THEN [msg |-> NoMsg, err |-> "ErrTooShort", calls |-> <<>>, exit |-> Running]
    ELSE LET id == Uint16(p.littleEndian, data) IN
         IF id \notin DOMAIN p.typeID
         THEN [msg |-> NoMsg, err |-> "ErrIDNotRegistered", calls |-> <<>>, exit |-> Running]
         ELSE LET i == p.msgInfo[p.typeID[id]] IN
              IF i.msgHandler # Nil
              THEN [msg |-> MsgRaw(id, Tail2(data)), err |-> Nil, calls |-> <<>>,
                    exit |-> Running]
              ELSE LET r == protoUnmarshal(Tail2(data), i.msgType) IN
                   [msg |-> r.msg, err |-> r.err,
                    calls |-> <<CallProtoUnmarshal(Tail2(data), i.msgType)>>,
                    exit |-> Running]

ProcessorV1_Unmarshal(p, data) ==
    IF Len(data) < 2
    THEN [msg |-> NoMsg, err |-> "ErrTooShort", calls |-> <<>>, exit |-> Running]
    ELSE LET id == Uint16(p.littleEndian, data) IN
         IF id \notin DOMAIN p.typeID
         THEN [msg |-> NoMsg, err |-> "ErrIDNotRegistered", calls |-> <<>>, exit |-> Running]
         ELSE IF p.typeID[id] \notin DOMAIN p.msgInfo
         THEN [msg |-> NoMsg, err |-> Nil, calls |-> <<>>, exit |-> Panic]
         ELSE LET i == p.msgInfo[p.typeID[id]] IN
              IF i.msgRawHandler # Nil
              THEN [msg |-> MsgRaw(id, Tail2(data)), err |-> Nil, calls |-> <<>>,
                    exit |-> Running]
              ELSE LET r == protoUnmarshal(Tail2(data), i.msgType) IN
                   [msg |-> r.msg, err |-> r.err,
                    calls |-> <<CallProtoUnmarshal(Tail2(data), i.msgType)>>,
                    exit |-> Running]

\* Register with the duplicate check made after the first write
ProcessorV1_Register_WriteFirst(p, msgID, msg) ==
    LET msgType == msg
        q == [p EXCEPT !.typeID = Put(@, msgID, msgType)]
    IN
    IF msgType = Nil \/ Kind(msgType) # "Ptr"
    THEN [p |-> p, exit |-> LeafLogFatal]
    ELSE IF msgType \in DOMAIN p.msgInfo
    THEN [p |-> q, exit |-> LeafLogFatal]
    ELSE [p |-> [q EXCEPT !.msgInfo = Put(@, msgType, MsgInfo(msgType, msgID)),
                          !.msgID = Put(@, msgType, msgID)],
          exit |-> Running]

ProcessorV1_Register(p, msgID, msg) ==
    LET msgType == msg IN
    IF msgType = Nil \/ Kind(msgType) # "Ptr"
    THEN [p |-> p, exit |-> LeafLogFatal]
    ELSE IF msgType \in DOMAIN p.msgInfo
    THEN [p |-> p, exit |-> LeafLogFatal]
    ELSE IF Cardinality(DOMAIN p.msgInfo) + p.others >= MaxUint16
    THEN [p |-> p, exit |-> LeafLogFatal]
    ELSE [p |-> [p EXCEPT !.msgInfo = Put(@, msgType, MsgInfo(msgType, msgID)),
                          !.msgID = Put(@, msgType, msgID),
                          !.typeID = Put(@, msgID, msgType)],
          exit |-> Running]

(***************************************************************************)
(* Processor (src/unnamed/part_000).                                       *)
(***************************************************************************)
\* the Processor struct after construction: both maps made and empty
\* others: the number of entries of msgID of schemas outside PtrTypes, which
\* the map of the model does not hold; msgInfo is held whole
NewProcessor ==
    [littleEndian |-> FALSE, msgInfo |-> <<>>, msgID |-> <<>>, others |-> 0]

Processor_Marshal(p, msg) ==
    LET msgType == TypeOf(msg) IN
    IF msgType \notin DOMAIN p.msgID
    THEN [segs |-> <<>>, err |-> "ErrMsgNotRegistered", calls |-> <<>>, exit |-> Running]
    ELSE [segs |-> <<PutUint16(p.littleEndian, p.msgID[msgType]), protoMarshal(msg)>>,
          err |-> Nil, calls |-> <<CallProtoMarshal(msg)>>, exit |-> Running]

Processor_Route(p, msg, userData) ==
    IF msg.kind = "raw"
    THEN IF msg.msgID \notin DOMAIN p.msgInfo
         THEN [calls |-> <<>>, err |-> "ErrIDNotRegistered", exit |-> Running]
         ELSE LET info == p.msgInfo[msg.msgID] IN
              [calls |-> IF info.msgRawHandler # Nil
                         THEN <<CallRawHandler(info.msgRawHandler, msg.msgID,
                                               msg.msgRawData, userData)>>
                         ELSE <<>>,
               err |-> Nil, exit |-> Running]
    ELSE LET msgType == TypeOf(msg) IN
         IF msgType \notin DOMAIN p.msgID
         THEN [calls |-> <<>>, err |-> "ErrMsgNotRegistered", exit |-> Running]
         ELSE IF p.msgID[msgType] \notin DOMAIN p.msgInfo
         \* info is nil: info.msgHandler dereferences it
         THEN [calls |-> <<>>, err |-> Nil, exit |-> Panic]
         ELSE LET info == p.msgInfo[p.msgID[msgType]] IN
              [calls |-> (IF info.msgHandler # Nil
                          THEN <<CallHandler(info.msgHandler, msg, userData)>>
                          ELSE <<>>)
                         \o
                         (IF info.msgRouter # Nil
                          THEN <<CallRouter(info.msgRouter, msgType, msg, userData)>>
                          ELSE <<>>),
               err |-> Nil, exit |-> Running]

Processor_Unmarshal(p, data) ==
    IF Len(data) < 2
    THEN [msg |-> NoMsg, err |-> "ErrTooShort", calls |-> <<>>, exit |-> Running]
    ELSE LET id == Uint16(p.littleEndian, data) IN
         IF id \notin DOMAIN p.msgInfo
         THEN [msg |-> NoMsg, err |-> "ErrIDNotRegistered", calls |-> <<>>, exit |-> Running]
         ELSE LET info == p.msgInfo[id] IN
              IF info.msgRawHandler # Nil
              THEN [msg |-> MsgRaw(id, Tail2(data)), err |-> Nil, calls |-> <<>>,
                    exit |-> Running]
              ELSE LET r == protoUnmarshal(Tail2(data), info.msgType) IN
                   [msg |-> r.msg, err |-> r.err,
                    calls |-> <<CallProtoUnmarshal(Tail2(data), info.msgType)>>,
                    exit |-> Running]

\* id, ok := p.msgID[msgType]: id is the zero value when ok is false, and
\* the record is stored under id
Processor_Register(p, msgID, msg) ==
    LET msgType == msg
        ok == msgType \in DOMAIN p.msgID
        id == IF ok THEN p.msgID[msgType] ELSE 0
    IN
    IF msgType = Nil \/ Kind(msgType) # "Ptr"
    THEN [p |-> p, exit |-> StdLogFatal]
    ELSE IF ok
    THEN [p |-> p, exit |-> StdLogFatal]
    ELSE IF Cardinality(DOMAIN p.msgInfo) >= MaxUint16
    THEN [p |-> p, exit |-> StdLogFatal]
    ELSE [p |-> [p EXCEPT !.msgInfo = Put(@, id, MsgInfo(msgType, msgID)),
                          !.msgID = Put(@, msgType, msgID)],
          exit |-> Running]

Processor_SetByteOrder(p, littleEndian) ==
    [p |-> [p EXCEPT !.littleEndian = littleEndian], exit |-> Running]

\* p.msgInfo[id].<field> = v: a nil dereference when the entry is missing
PSetField(p, id, field, v) ==
    IF id \notin DOMAIN p.msgInfo THEN [p |-> p, exit |-> Panic]
    ELSE [p |-> [p EXCEPT !.msgInfo[id][field] = v], exit |-> Running]

Processor_SetRouter(p, msg, msgRouter) ==
    IF msg \notin DOMAIN p.msgID THEN [p |-> p, exit |-> StdLogFatal]
    ELSE PSetField(p, p.msgID[msg], "msgRouter", msgRouter)

Processor_SetHandler(p, msg, msgHandler) ==
    IF msg \notin DOMAIN p.msgID THEN [p |-> p, exit |-> StdLogFatal]
    ELSE PSetField(p, p.msgID[msg], "msgHandler", msgHandler)

Processor_SetRawHandler(p, id, msgRawHandler) ==
    IF id \notin DOMAIN p.msgInfo THEN [p |-> p, exit |-> StdLogFatal]
    ELSE PSetField(p, id, "msgRawHandler", msgRawHandler)

\* for _, i := range p.msgInfo { f(uint16(i.msgID), i.msgType) }: the visits
Processor_Range(p) ==
    {CallVisit(p.msgInfo[k].msgID, p.msgInfo[k].msgType) : k \in DOMAIN p.msgInfo}

(***************************************************************************)
(* Inputs of the calls.                                                    *)
(***************************************************************************)
\* payloads a transport may deliver: every serialized message, and a cut one
Payloads == {protoMarshal(Proto("*A", s)) : s \in Seqs} \cup {<<FieldTag>>}
\* frames: too short ones, and the header of every ID in either byte order
\* followed by a payload
Frames ==
    {<<>>} \cup {<<a>> : a \in IDs}
    \cup {PutUint16(o, id) \o d : o \in BOOLEAN, id \in IDs, d \in Payloads}
\* what a caller may hand to Marshal and Route
ProtoMsgs == {Proto(t, s) : t \in PtrTypes, s \in Seqs}
RawMsgs == {MsgRaw(id, d) : id \in IDs, d \in Payloads}
Msgs == ProtoMsgs \cup RawMsgs

\* the orders in which a map iteration may make the visits of S
Orders(S) ==
    {q \in [1..Cardinality(S) -> S] : \A i, j \in 1..Cardinality(S) : q[i] = q[j] => i = j}

(***************************************************************************)
(* The process: one call per step.                                         *)
(***************************************************************************)
Init ==
    /\ impl \in {"ProcessorV1", "Processor"}
    /\ v1 = NewMsgIdProcessor
    /\ pr = NewProcessor
    /\ exit = Running
    /\ last = [op |-> "new"]
    /\ calls = <<>>

StepV1_Register ==
    /\ exit = Running /\ impl = "ProcessorV1"
    /\ \E msgID \in IDs, msg \in Prototypes :
        LET r == ProcessorV1_Register(v1, msgID, msg) IN
        /\ v1' = r.p /\ exit' = r.exit
        /\ last' = [op |-> "Register", msgID |-> msgID, msg |-> msg]
    /\ calls' = <<>>
    /\ UNCHANGED <<impl, pr>>

StepV1_SetByteOrder ==
    /\ exit = Running /\ impl = "ProcessorV1"
    /\ \E littleEndian \in BOOLEAN :
        LET r == ProcessorV1_SetByteOrder(v1, littleEndian) IN
        /\ v1' = r.p /\ exit' = r.exit
        /\ last' = [op |-> "SetByteOrder", littleEndian |-> littleEndian]
    /\ calls' = <<>>
    /\ UNCHANGED <<impl, pr>>

StepV1_SetRouter ==
    /\ exit = Running /\ impl = "ProcessorV1"
    /\ \E msg \in PtrTypes, msgRouter \in Routers \cup {Nil} :
        LET r == ProcessorV1_SetRouter(v1, msg, msgRouter) IN
        /\ v1' = r.p /\ exit' = r.exit
        /\ last' = [op |-> "SetRouter", msg |-> msg, msgRouter |-> msgRouter]
    /\ calls' = <<>>
    /\ UNCHANGED <<impl, pr>>

StepV1_SetHandler ==
    /\ exit = Running /\ impl = "ProcessorV1"
    /\ \E msg \in PtrTypes, msgHandler \in MsgHandlers \cup {Nil} :
        LET r == ProcessorV1_SetHandler(v1, msg, msgHandler) IN
        /\ v1' = r.p /\ exit' = r.exit
        /\ last' = [op |-> "SetHandler", msg |-> msg, msgHandler |-> msgHandler]
    /\ calls' = <<>>
    /\ UNCHANGED <<impl, pr>>

StepV1_SetRawHandler ==
    /\ exit = Running /\ impl = "ProcessorV1"
    /\ \E id \in IDs, msgRawHandler \in RawHandlers \cup {Nil} :
        LET r == ProcessorV1_SetRawHandler(v1, id, msgRawHandler) IN
        /\ v1' = r.p /\ exit' = r.exit
        /\ last' = [op |-> "SetRawHandler", id |-> id, msgRawHandler |-> msgRawHandler]
    /\ calls' = <<>>
    /\ UNCHANGED <<impl, pr>>

\* Range that deletes the records it has visited
StepV1_Range_Drain ==
    /\ exit = Running /\ impl = "ProcessorV1"
    /\ calls' \in Orders(ProcessorV1_Range(v1))
    /\ last' = [op |-> "Range"]
    /\ v1' = [v1 EXCEPT !.msgInfo = <<>>]
    /\ UNCHANGED <<impl, pr, exit>>

StepV1_Range ==
    /\ exit = Running /\ impl = "ProcessorV1"
    /\ calls' \in Orders(ProcessorV1_Range(v1))
    /\ last' = [op |-> "Range"]
    /\ UNCHANGED <<impl, v1, pr, exit>>

StepV1_Marshal ==
    /\ exit = Running /\ impl = "ProcessorV1"
    /\ \E msg \in Msgs :
        LET r == ProcessorV1_Marshal(v1, msg) IN
        /\ exit' = r.exit
        /\ calls' = r.calls
        /\ last' = [op |-> "Marshal", msg |-> msg, segs |-> r.segs, err |-> r.err]
    /\ UNCHANGED <<impl, v1, pr>>

StepV1_Route ==
    /\ exit = Running /\ impl = "ProcessorV1"
    /\ \E msg \in Msgs, userData \in UserData :
        LET r == ProcessorV1_Route(v1, msg, userData) IN
        /\ exit' = r.exit
        /\ calls' = r.calls
        /\ last' = [op |-> "Route", msg |-> msg, userData |-> userData, err |-> r.err]
    /\ UNCHANGED <<impl, v1, pr>>

StepV1_Unmarshal ==
    /\ exit = Running /\ impl = "ProcessorV1"
    /\ \E data \in Frames :
        LET r == ProcessorV1_Unmarshal(v1, data) IN
        /\ exit' = r.exit
        /\ calls' = r.calls
        /\ last' = [op |-> "Unmarshal", data |-> data, ret |-> r.msg, err |-> r.err]
    /\ UNCHANGED <<impl, v1, pr>>

Step_Register ==
    /\ exit = Running /\ impl = "Processor"
    /\ \E msgID \in IDs, msg \in Prototypes :
        LET r == Processor_Register(pr, msgID, msg) IN
        /\ pr' = r.p /\ exit' = r.exit
        /\ last' = [op |-> "Register", msgID |-> msgID, msg |-> msg]
    /\ calls' = <<>>
    /\ UNCHANGED <<impl, v1>>

Step_SetByteOrder ==
    /\ exit = Running /\ impl = "Processor"
    /\ \E littleEndian \in BOOLEAN :
        LET r == Processor_SetByteOrder(pr, littleEndian) IN
        /\ pr' = r.p /\ exit' = r.exit
        /\ last' = [op |-> "SetByteOrder", littleEndian |-> littleEndian]
    /\ calls' = <<>>
    /\ UNCHANGED <<impl, v1>>

Step_SetRouter ==
    /\ exit = Running /\ impl = "Processor"
    /\ \E msg \in PtrTypes, msgRouter \in Routers \cup {Nil} :
        LET r == Processor_SetRouter(pr, msg, msgRouter) IN
        /\ pr' = r.p /\ exit' = r.exit
        /\ last' = [op |-> "SetRouter", msg |-> msg, msgRouter |-> msgRouter]
    /\ calls' = <<>>
    /\ UNCHANGED <<impl, v1>>

Step_SetHandler ==
    /\ exit = Running /\ impl = "Processor"
    /\ \E msg \in PtrTypes, msgHandler \in MsgHandlers \cup {Nil} :
        LET r == Processor_SetHandler(pr, msg, msgHandler) IN
        /\ pr' = r.p /\ exit' = r.exit
        /\ last' = [op |-> "SetHandler", msg |-> msg, msgHandler |-> msgHandler]
    /\ calls' = <<>>
    /\ UNCHANGED <<impl, v1>>

Step_SetRawHandler ==
    /\ exit = Running /\ impl = "Processor"
    /\ \E id \in IDs, msgRawHandler \in RawHandlers \cup {Nil} :
        LET r == Processor_SetRawHandler(pr, id, msgRawHandler) IN
        /\ pr' = r.p /\ exit' = r.exit
        /\ last' = [op |-> "SetRawHandler", id |-> id, msgRawHandler |-> msgRawHandler]
    /\ calls' = <<>>
    /\ UNCHANGED <<impl, v1>>

Step_Range ==
    /\ exit = Running /\ impl = "Processor"
    /\ calls' \in Orders(Processor_Range(pr))
    /\ last' = [op |-> "Range"]
    /\ UNCHANGED <<impl, v1, pr, exit>>

Step_Marshal ==
    /\ exit = Running /\ impl = "Processor"
    /\ \E msg \in Msgs :
        LET r == Processor_Marshal(pr, msg) IN
        /\ exit' = r.exit
        /\ calls' = r.calls
        /\ last' = [op |-> "Marshal", msg |-> msg, segs |-> r.segs, err |-> r.err]
    /\ UNCHANGED <<impl, v1, pr>>

Step_Route ==
    /\ exit = Running /\ impl = "Processor"
    /\ \E msg \in Msgs, userData \in UserData :
        LET r == Processor_Route(pr, msg, userData) IN
        /\ exit' = r.exit
        /\ calls' = r.calls
        /\ last' = [op |-> "Route", msg |-> msg, userData |-> userData, err |-> r.err]
    /\ UNCHANGED <<impl, v1, pr>>

Step_Unmarshal ==
    /\ exit = Running /\ impl = "Processor"
    /\ \E data \in Frames :
        LET r == Processor_Unmarshal(pr, data) IN
        /\ exit' = r.exit
        /\ calls' = r.calls
        /\ last' = [op |-> "Unmarshal", data |-> data, ret |-> r.msg, err |-> r.err]
    /\ UNCHANGED <<impl, v1, pr>>

Next ==
    \/ StepV1_Register \/ StepV1_SetByteOrder \/ StepV1_SetRouter
    \/ StepV1_SetHandler \/ StepV1_SetRawHandler \/ StepV1_Range
    \/ StepV1_Marshal \/ StepV1_Route \/ StepV1_Unmarshal
    \/ Step_Register \/ Step_SetByteOrder \/ Step_SetRouter
    \/ Step_SetHandler \/ Step_SetRawHandler \/ Step_Range
    \/ Step_Marshal \/ Step_Route \/ Step_Unmarshal

Spec == Init /\ [][Next]_vars

(***************************************************************************)
(* The registry as the calls see it, in the processor the process uses.    *)
(***************************************************************************)
IsV1 == impl = "ProcessorV1"
\* the schemas of the Register calls that succeeded, each with its ID: both
\* processors write msgID[msgType] = msgID in every successful Register
Registered == IF IsV1 THEN DOMAIN v1.msgID ELSE DOMAIN pr.msgID
RegisteredID(s) == IF IsV1 THEN v1.msgID[s] ELSE pr.msgID[s]
RegisteredIDs == {RegisteredID(s) : s \in Registered}

\* lookup by schema, as Marshal makes it: is s bound, and to which ID
BoundSchema(s) == IF IsV1 THEN s \in DOMAIN v1.msgInfo ELSE s \in DOMAIN pr.msgID
IDOfSchema(s) == IF IsV1 THEN v1.msgInfo[s].msgID ELSE pr.msgID[s]
\* lookup by ID, as Unmarshal makes it: is k bound, and to which schema
BoundID(k) == IF IsV1 THEN k \in DOMAIN v1.typeID ELSE k \in DOMAIN pr.msgInfo
SchemaOfID(k) == IF IsV1 THEN v1.typeID[k] ELSE pr.msgInfo[k].msgType

\* the MsgInfo record SetHandler, SetRouter and Route reach from a schema
HasInfoOfSchema(s) ==
    IF IsV1 THEN s \in DOMAIN v1.msgID /\ s \in DOMAIN v1.msgInfo
    ELSE s \in DOMAIN pr.msgID /\ pr.msgID[s] \in DOMAIN pr.msgInfo
InfoOfSchema(s) == IF IsV1 THEN v1.msgInfo[s] ELSE pr.msgInfo[pr.msgID[s]]
\* the MsgInfo record SetRawHandler, Unmarshal and Route reach from an ID
HasInfoOfID(k) ==
    IF IsV1 THEN k \in DOMAIN v1.typeID /\ v1.typeID[k] \in DOMAIN v1.msgInfo
    ELSE k \in DOMAIN pr.msgInfo
InfoOfID(k) == IF IsV1 THEN v1.msgInfo[v1.typeID[k]] ELSE pr.msgInfo[k]

LittleEndian == IF IsV1 THEN v1.littleEndian ELSE pr.littleEndian
\* Unmarshal of the processor in use, in the current state
Unmarshal(data) ==
    IF IsV1 THEN ProcessorV1_Unmarshal(v1, data) ELSE Processor_Unmarshal(pr, data)

(***************************************************************************)
(* C1.  Round trip: for every registered schema s with no raw handler      *)
(* attached and every message m of s, Unmarshal of the concatenation of    *)
(* the two segments Marshal returned for m succeeds and returns a message  *)
(* of schema s equal to m.  Stated on the state after a Marshal call, which*)
(* leaves the registry as it was.                                          *)
(***************************************************************************)
\* no record of the registry carries a raw handler for schema s
NoRawHandler(s) ==
    /\ HasInfoOfSchema(s) => InfoOfSchema(s).msgRawHandler = Nil
    /\ \A k \in IDs :
        (HasInfoOfID(k) /\ InfoOfID(k).msgType = s) => InfoOfID(k).msgRawHandler = Nil

C1_RoundTrip ==
    (/\ last.op = "Marshal"
     /\ last.msg.kind = "proto"
     /\ TypeOf(last.msg) \in Registered
     /\ NoRawHandler(TypeOf(last.msg)))
    => /\ exit = Running
       /\ last.err = Nil
       /\ LET r == Unmarshal(last.segs[1] \o last.segs[2]) IN
          /\ r.exit = Running
          /\ r.err = Nil
          /\ r.msg = last.msg

(***************************************************************************)
(* C2.  Bijection: no two distinct registered schemas are bound to the     *)
(* same ID, and the lookup by ID is the inverse of the lookup by schema.   *)
(***************************************************************************)
C2_Bijection ==
    /\ \A s, t \in Registered : RegisteredID(s) = RegisteredID(t) => s = t
    /\ \A s \in Registered :
        /\ BoundSchema(s)
        /\ BoundID(IDOfSchema(s))
        /\ SchemaOfID(IDOfSchema(s)) = s

(***************************************************************************)
(* C3.  Append-only permanence: a successful Register(id, s) binds id to s *)
(* for both lookups, and no later call removes or rebinds the pair.        *)
(***************************************************************************)
\* both lookups agree on the pair (k, s)
BoundPair(k, s) ==
    /\ BoundSchema(s) /\ IDOfSchema(s) = k
    /\ BoundID(k) /\ SchemaOfID(k) = s

C3_Permanent ==
    [][\A k \in IDs, s \in PtrTypes :
        /\ (/\ last'.op = "Register" /\ exit' = Running
            /\ last'.msgID = k /\ last'.msg = s) => BoundPair(k, s)'
        /\ BoundPair(k, s) => BoundPair(k, s)']_vars

(***************************************************************************)
(* C4.  An ID collision is never silently accepted: Register(id, s2) made  *)
(* while id is bound to a different schema s1 ends in the fatal outcome.   *)
(***************************************************************************)
\* id was given to a schema other than s by an earlier successful Register
IDTaken(id, s) == \E s1 \in Registered : s1 # s /\ RegisteredID(s1) = id

C4_CollisionFatal ==
    [][\A id \in IDs, s2 \in Prototypes :
        (/\ last'.op = "Register" /\ last'.msgID = id /\ last'.msg = s2
         /\ IDTaken(id, s2)) => exit' = "fatal"]_vars

(***************************************************************************)
(* C5.  Register of a schema that is already registered, with the same or  *)
(* a different ID, ends in the fatal outcome and leaves every registry map *)
(* and every attachment as it was before the call.                         *)
(***************************************************************************)
C5_DuplicateFatal ==
    [][\A s \in PtrTypes :
        (last'.op = "Register" /\ last'.msg = s /\ s \in Registered)
            => (exit' = "fatal" /\ v1' = v1 /\ pr' = pr)]_vars

\* a registered schema that carries a handler was registered again, with
\* another ID, and the process ended
C5_Witness ==
    /\ exit = "fatal"
    /\ last.op = "Register"
    /\ last.msg \in Registered
    /\ last.msgID # RegisteredID(last.msg)
    /\ HasInfoOfSchema(last.msg)
    /\ InfoOfSchema(last.msg).msgHandler # Nil

(***************************************************************************)
(* C6.  Route on a typed message whose schema has both a handler and a     *)
(* router invokes the handler once with (msg, userData), then submits once *)
(* to the router with (msgType, msg, userData), and returns nil.           *)
(***************************************************************************)
\* the record Route reaches from schema s carries a handler and a router
HasBoth(s) ==
    /\ HasInfoOfSchema(s)
    /\ InfoOfSchema(s).msgHandler # Nil
    /\ InfoOfSchema(s).msgRouter # Nil

RawAttached(k) == HasInfoOfID(k) /\ InfoOfID(k).msgRawHandler # Nil

C8_RawRoute ==
    (last.op = "Route" /\ last.msg.kind = "raw")
    => LET k == last.msg.msgID IN
       /\ (k \in RegisteredIDs /\ RawAttached(k))
            => /\ exit = Running
               /\ last.err = Nil
               /\ calls = <<CallRawHandler(InfoOfID(k).msgRawHandler, k,
                                           last.msg.msgRawData, last.userData)>>
       /\ \A i \in 1..Len(calls) : calls[i].fn = "msgRawHandler"
       /\ k \notin RegisteredIDs
            => /\ exit = Running
               /\ last.err = "ErrIDNotRegistered"
               /\ calls = <<>>

(***************************************************************************)
(* C9.  Marshal, Unmarshal and Route never end the process: on every input *)
(* each returns a result or an error value.                                *)
(***************************************************************************)
C9_RuntimeNeverExits ==
    last.op \in {"Marshal", "Unmarshal", "Route"} => exit = Running

(***************************************************************************)
(* C10.  SetHandler, SetRouter and SetRawHandler on a registered schema or *)
(* ID complete normally, and the value written is the one the record that  *)
(* Route and Unmarshal use then carries: the last write wins.              *)
(***************************************************************************)
C10_LastWriteWins ==
    /\ (last.op = "SetHandler" /\ last.msg \in Registered)
        => /\ exit = Running
           /\ HasInfoOfSchema(last.msg)
           /\ InfoOfSchema(last.msg).msgHandler = last.msgHandler
    /\ (last.op = "SetRouter" /\ last.msg \in Registered)
        => /\ exit = Running
           /\ HasInfoOfSchema(last.msg)
           /\ InfoOfSchema(last.msg).msgRouter = last.msgRouter
    /\ (last.op = "SetRawHandler" /\ last.id \in RegisteredIDs)
        => /\ exit = Running
           /\ HasInfoOfID(last.id)
           /\ InfoOfID(last.id).msgRawHandler = last.msgRawHandler

(***************************************************************************)
(* C11.  SetHandler and SetRouter on a schema that was never registered,   *)
(* and SetRawHandler on an ID that was never registered, end in the fatal  *)
(* outcome and leave every binding and every attachment unchanged.         *)
(***************************************************************************)
C11_UnknownSetFatal ==
    [][\A s \in PtrTypes, k \in IDs :
        (\/ /\ last'.op \in {"SetHandler", "SetRouter"}
            /\ last'.msg = s /\ s \notin Registered
         \/ /\ last'.op = "SetRawHandler"
            /\ last'.id = k /\ k \notin RegisteredIDs)
        => (exit' = "fatal" /\ v1' = v1 /\ pr' = pr)]_vars

(***************************************************************************)
(* C12.  Unmarshal rejects unusable frames: fewer than 2 bytes give the    *)
(* too-short error whatever the registry and the byte order; 2 bytes or    *)
(* more whose header, read in the configured order, is an ID that was      *)
(* never registered give the unknown-ID error; proto.Unmarshal is not      *)
(* called and no message is returned.                                      *)
(***************************************************************************)
C12_DecodeRejects ==
    last.op = "Unmarshal" =>
        /\ Len(last.data) < 2 =>
              /\ exit = Running
              /\ last.err = "ErrTooShort"
              /\ last.ret = NoMsg
              /\ calls = <<>>
        /\ (Len(last.data) >= 2 /\ Uint16(LittleEndian, last.data) \notin RegisteredIDs) =>
              /\ exit = Running
              /\ last.err = "ErrIDNotRegistered"
              /\ last.ret = NoMsg
              /\ calls = <<>>

(***************************************************************************)
(* C13.  A message whose schema was never registered is rejected with the  *)
(* not-registered error: Marshal returns the error and no byte segments,   *)
(* Route returns the error having invoked no handler and made no router    *)
(* submission.                                                             *)
(***************************************************************************)
C13_NotRegistered ==
    (/\ last.op \in {"Marshal", "Route"}
     /\ last.msg.kind = "proto"
     /\ TypeOf(last.msg) \notin Registered)
    => /\ exit = Running
       /\ last.err = "ErrMsgNotRegistered"
       /\ calls = <<>>
       /\ last.op = "Marshal" => last.segs = <<>>

\* a message of an unregistered schema was routed while another schema is
\* registered and carries a handler and a router
C13_Witness ==
    /\ last.op = "Route"
    /\ last.msg.kind = "proto"
    /\ TypeOf(last.msg) \notin Registered
    /\ last.err = "ErrMsgNotRegistered"
    /\ \E s \in Registered : HasBoth(s)

(***************************************************************************)
(* A registry near its capacity.  The process is started after a run of    *)
(* successful Register calls of further schemas, one per call, all made    *)
(* with the ID OtherID (neither Register compares IDs), and then registers *)
(* the schemas of PtrTypes.                                                *)
(***************************************************************************)
OtherID == MaxUint16
\* reflect.TypeOf of the further schema registered last
OtherType == "*T"

\* ProcessorV1 after n such calls: n records in msgInfo
LoadedV1(n) == [NewMsgIdProcessor EXCEPT !.others = n]

\* Processor after n such calls: every record went to msgInfo[0], where the
\* last one stays, and msgID has n entries
Loaded(n) ==
    [NewProcessor EXCEPT !.others = n, !.msgInfo = (0 :> MsgInfo(OtherType, OtherID))]

\* numbers of calls already made: the capacity test of ProcessorV1 is met
\* within the next two calls, the specified capacity of Processor within one
LoadsV1 == {MaxUint16 - 2, MaxUint16 - 1, MaxUint16}
Loads == {MaxUint16 - 1, MaxUint16, MaxUint16 + 1}

InitCap ==
    /\ impl \in {"ProcessorV1", "Processor"}
    /\ v1 \in IF impl = "ProcessorV1" THEN {LoadedV1(n) : n \in LoadsV1}
                                       ELSE {NewMsgIdProcessor}
    /\ pr \in IF impl = "Processor" THEN {Loaded(n) : n \in Loads} ELSE {NewProcessor}
    /\ exit = Running
    /\ last = [op |-> "new"]
    /\ calls = <<>>

\* the calls that reach the registry by a schema of PtrTypes
NextCap ==
    \/ StepV1_Register \/ StepV1_SetByteOrder \/ StepV1_SetRouter
    \/ StepV1_SetHandler \/ StepV1_Marshal
    \/ Step_Register \/ Step_SetByteOrder \/ Step_SetRouter
    \/ Step_SetHandler \/ Step_Marshal

SpecCap == InitCap /\ [][NextCap]_vars

\* the number of registered schemas
Entries == Cardinality(Registered) + (IF IsV1 THEN v1.others ELSE pr.others)

\* the capacity the registry is specified to have: one entry per 16-bit ID
RegistryCapacity == MaxUint16 + 1

(***************************************************************************)
(* C14.  Registry capacity is 65536 entries: Register of a valid schema    *)
(* that is not yet registered succeeds whenever the registry holds fewer   *)
(* than 65536 entries, and ends in the fatal outcome, leaving the registry *)
(* unchanged, once the registry has reached 65536 entries.                 *)
(***************************************************************************)
C14_Capacity ==
    [][\A s \in PtrTypes :
        (last'.op = "Register" /\ last'.msg = s /\ s \notin Registered)
        => IF Entries < RegistryCapacity
           THEN exit' = Running /\ s \in Registered'
           ELSE exit' = "fatal" /\ v1' = v1 /\ pr' = pr]_vars

(***************************************************************************)
(* The codec over the whole range of 16-bit IDs: Register with IDs whose   *)
(* high and low bytes take the edge values of a byte, then SetByteOrder    *)
(* and Marshal.                                                            *)
(***************************************************************************)
ByteEdges == {0, 1, MaxUint16 % 256}
WideIDs == {hi * 256 + lo : hi \in ByteEdges, lo \in ByteEdges}

StepV1_RegisterWide ==
    /\ exit = Running /\ impl = "ProcessorV1"
    /\ \E msgID \in WideIDs, msg \in Prototypes :
        LET r == ProcessorV1_Register(v1, msgID, msg) IN
        /\ v1' = r.p /\ exit' = r.exit
        /\ last' = [op |-> "Register", msgID |-> msgID, msg |-> msg]
    /\ calls' = <<>>
    /\ UNCHANGED <<impl, pr>>

Step_RegisterWide ==
    /\ exit = Running /\ impl = "Processor"
    /\ \E msgID \in WideIDs, msg \in Prototypes :
        LET r == Processor_Register(pr, msgID, msg) IN
        /\ pr' = r.p /\ exit' = r.exit
        /\ last' = [op |-> "Register", msgID |-> msgID, msg |-> msg]
    /\ calls' = <<>>
    /\ UNCHANGED <<impl, v1>>

NextCodec ==
    \/ StepV1_RegisterWide \/ StepV1_SetByteOrder \/ StepV1_Marshal
    \/ Step_RegisterWide \/ Step_SetByteOrder \/ Step_Marshal

SpecCodec == Init /\ [][NextCodec]_vars

(***************************************************************************)
(* C15.  After a successful Marshal the first segment is exactly 2 bytes   *)
(* holding the ID bound to the message's schema: (id div 256, id mod 256)  *)
(* in big-endian order, (id mod 256, id div 256) in little-endian order;   *)
(* the second segment is the serialized payload with nothing before it;    *)
(* and the ID that Unmarshal reads from that header in the configured      *)
(* order is id.                                                            *)
(***************************************************************************)
C15_Header ==
    (last.op = "Marshal" /\ last.err = Nil) =>
        LET id == RegisteredID(TypeOf(last.msg)) IN
        /\ TypeOf(last.msg) \in Registered
        /\ Len(last.segs) = 2
        /\ Len(last.segs[1]) = 2
        /\ last.segs[1] = IF LittleEndian THEN <<id % 256, id \div 256>>
                                          ELSE <<id \div 256, id % 256>>
        /\ last.segs[2] = protoMarshal(last.msg)
        /\ Uint16(LittleEndian, last.segs[1] \o last.segs[2]) = id
        /\ Unmarshal(last.segs[1] \o last.segs[2]).err # "ErrTooShort"

\* a message whose ID has two different non-zero bytes was marshalled in
\* little-endian order
C15_Witness ==
    /\ last.op = "Marshal" /\ last.err = Nil
    /\ LittleEndian
    /\ last.msg.seq # 0
    /\ LET id == RegisteredID(TypeOf(last.msg)) IN
       /\ id \div 256 # 0 /\ id % 256 # 0
       /\ id \div 256 # id % 256

\* the elements of a sequence of invocations
Elems(q) == {q[i] : i \in DOMAIN q}

(***************************************************************************)
(* C16.  Range calls f exactly once for each registered (ID, schema) pair  *)
(* and for no other pair.                                                  *)
(***************************************************************************)
C16_RangeVisits ==
    last.op = "Range" =>
        /\ exit = Running
        /\ Elems(calls) = {CallVisit(RegisteredID(s), s) : s \in Registered}
        /\ Len(calls) = Cardinality(Registered)

\* the calls on the processor the process uses
Marshal(msg) ==
    IF IsV1 THEN ProcessorV1_Marshal(v1, msg) ELSE Processor_Marshal(pr, msg)
Route(msg, userData) ==
    IF IsV1 THEN ProcessorV1_Route(v1, msg, userData) ELSE Processor_Route(pr, msg, userData)
Visits == IF IsV1 THEN ProcessorV1_Range(v1) ELSE Processor_Range(pr)

\* the calls that only read
ReadOps == {"Marshal", "Unmarshal", "Route", "Range"}

(***************************************************************************)
(* C17.  Marshal, Unmarshal, Route and Range are read-only: whether they   *)
(* succeed or fail, the ID/schema bindings, every attachment and the byte  *)
(* order are as before the call, so the same call made again after it      *)
(* returns what it returned, and Range visits what it would have visited.  *)
(***************************************************************************)
C17_ReadOnly ==
    [][last'.op \in ReadOps =>
        /\ v1' = v1 /\ pr' = pr
        /\ Visits' = Visits
        /\ last'.op = "Range" => Elems(calls') = Visits'
        /\ \A msg \in Msgs : (last'.op = "Marshal" /\ last'.msg = msg) =>
              /\ Marshal(msg)'.segs = last'.segs
              /\ Marshal(msg)'.err = last'.err
        /\ \A data \in Frames : (last'.op = "Unmarshal" /\ last'.data = data) =>
              /\ Unmarshal(data)'.msg = last'.ret
              /\ Unmarshal(data)'.err = last'.err
        /\ \A msg \in Msgs, u \in UserData :
              (last'.op = "Route" /\ last'.msg = msg /\ last'.userData = u) =>
              /\ Route(msg, u)'.calls = calls'
              /\ Route(msg, u)'.err = last'.err]_vars

\* a Route that invoked a handler ran on a registry with two schemas, an
\* attachment and the little-endian order
C17_Witness ==
    /\ last.op = "Route" /\ last.err = Nil /\ calls # <<>>
    /\ Cardinality(Registered) = 2
    /\ LittleEndian

\* the MsgInfo records by the key they are stored under, and the index maps
InfoKeys == IF IsV1 THEN DOMAIN v1.msgInfo ELSE DOMAIN pr.msgInfo
Info(c) == IF IsV1 THEN v1.msgInfo[c] ELSE pr.msgInfo[c]
Bindings == IF IsV1 THEN <<v1.msgID, v1.typeID>> ELSE <<pr.msgID>>

\* in this step no record changed but, in field f alone, records that
\* satisfy Named
OnlyField(f, x, Named(_)) ==
    /\ InfoKeys' = InfoKeys
    /\ \A c \in InfoKeys :
        \/ Info(c)' = Info(c)
        \/ Named(Info(c)) /\ Info(c)' = [Info(c) EXCEPT ![f] = x]

(***************************************************************************)
(* C18.  A successful SetHandler, SetRouter or SetRawHandler changes only  *)
(* the attachment it names, on the entry of the schema or ID it names: the *)
(* other attachments of that entry, the records of all other entries, the  *)
(* ID/schema bindings and the byte order are unchanged.                    *)
(***************************************************************************)
C18_Overlays ==
    [][(last'.op \in {"SetHandler", "SetRouter", "SetRawHandler"} /\ exit' = Running) =>
        /\ Bindings' = Bindings
        /\ LittleEndian' = LittleEndian
        /\ \A s \in PtrTypes, h \in MsgHandlers \cup {Nil} :
            (last'.op = "SetHandler" /\ last'.msg = s /\ last'.msgHandler = h) =>
                LET Named(i) == i.msgType = s IN OnlyField("msgHandler", h, Named)
        /\ \A s \in PtrTypes, r \in Routers \cup {Nil} :
            (last'.op = "SetRouter" /\ last'.msg = s /\ last'.msgRouter = r) =>
                LET Named(i) == i.msgType = s IN OnlyField("msgRouter", r, Named)
        /\ \A k \in IDs, h \in RawHandlers \cup {Nil} :
            (last'.op = "SetRawHandler" /\ last'.id = k /\ last'.msgRawHandler = h) =>
                LET Named(i) == i.msgID = k IN OnlyField("msgRawHandler", h, Named)]_vars

(***************************************************************************)
(* C19.  Registry consistency: for every registered schema s with          *)
(* schema-to-ID entry msgID[s] = k, the record reached by ID k exists, has *)
(* msgType = s and has msgID = k; and the number of records equals the     *)
(* number of registered schemas.                                           *)
(***************************************************************************)
C19_Consistent ==
    /\ \A s \in Registered :
        LET k == RegisteredID(s) IN
        /\ HasInfoOfID(k)
        /\ InfoOfID(k).msgType = s
        /\ InfoOfID(k).msgID = k
    /\ Cardinality(InfoKeys) = Cardinality(Registered)

(***************************************************************************)
(* C20.  When Route is applied to the result of a successful Unmarshal of  *)
(* a frame with registered ID k, exactly one dispatch path is taken: if a  *)
(* raw handler is attached to k, only that raw handler is invoked, once;   *)
(* if none is attached, the message is of a schema bound to k and only the *)
(* handler and the router attached to that schema are invoked, each at     *)
(* most once.                                                              *)
(***************************************************************************)
C20_Exclusive ==
    (/\ last.op = "Unmarshal" /\ exit = Running /\ last.err = Nil
     /\ Len(last.data) >= 2
     /\ Uint16(LittleEndian, last.data) \in RegisteredIDs)
    => LET k == Uint16(LittleEndian, last.data)
           ret == last.ret
       IN \A u \in UserData :
           LET r == Route(ret, u) IN
           /\ r.exit = Running
           /\ r.err = Nil
           /\ IF RawAttached(k)
              THEN r.calls = <<CallRawHandler(InfoOfID(k).msgRawHandler, k,
                                              Tail2(last.data), u)>>
              ELSE /\ ret.kind = "proto"
                   /\ TypeOf(ret) \in Registered
                   /\ RegisteredID(TypeOf(ret)) = k
                   /\ HasInfoOfSchema(TypeOf(ret))
                   /\ \A c \in Elems(r.calls) :
                        \/ c = CallHandler(InfoOfSchema(TypeOf(ret)).msgHandler, ret, u)
                        \/ c = CallRouter(InfoOfSchema(TypeOf(ret)).msgRouter,
                                          TypeOf(ret), ret, u)
                   /\ Cardinality(Elems(r.calls)) = Len(r.calls)

====
